---- MODULE Spec2Model ----
(***************************************************************************)
(* Model of the ingestion / normalization / join / aggregation pipeline of *)
(* src/app.py (transport dashboard).                                       *)
(*                                                                         *)
(* Data representation.                                                    *)
(*   - A Python str is a sequence of one-character tokens; a non-ASCII    *)
(*     character is written by its code point ("U+00E9" is e-acute).       *)
(*   - A cell of a DataFrame is a record: Str(s), IntV(n), Num(n) or NaN    *)
(*     (pandas' missing value; Python None in a column is the same).       *)
(*   - IntV(n) is the integer n; Num(n) is a float, held as a fixed-point   *)
(*     integer in hundredths (12.5 is Num(1250)).                          *)
(*   - A DataFrame is a sequence of rows, a row a record of cells.         *)
(***************************************************************************)
EXTENDS Integers, Sequences, FiniteSets, TLC

VARIABLES
    name_in,        \* clean_name: the argument of the first call
    name_out1,      \* clean_name: the value returned by the first call
    name_out2,      \* clean_name: the value returned when applied to name_out1
    pcn,            \* clean_name scenario: "in" | "once" | "twice"
    tranche_in,     \* parse_heure: the argument (a cell of tranche_horaire)
    heure_out,      \* parse_heure: the value returned
    pch,            \* parse_heure scenario: "in" | "parsed"
    raw_val,        \* load_validations_data: the frame read and renamed
    df_val,         \* load_validations_data: the frame returned
    pcv,            \* load_validations_data scenario: "in" | "loaded"
    raw_gares,      \* load_gares_data: the frame read ([cols, rows])
    df_gares,       \* load_gares_data: the frame returned
    pcg,            \* load_gares_data scenario: "in" | "loaded"
    val_exists,     \* VALIDATIONS_PATH.exists()
    gares_exists,   \* GARES_PATH.exists()
    pc,             \* show_transport_dashboard: the statement reached
    log,            \* the pipeline stages completed in this run, in order
    df_merged,      \* show_transport_dashboard: df_merged
    selected_type_jour,   \* the selectbox value
    selected_gares,       \* the multiselect value
    plage_horaire,        \* the slider value <<lo, hi>>
    df_filtered,          \* show_transport_dashboard: df_filtered
    df_merged_filtered,   \* show_transport_dashboard: df_merged_filtered
    fig_profil,     \* what plot_profil_horaire rendered
    fig_boxplot,    \* what plot_boxplot rendered
    fig_heatmap,    \* what plot_heatmap rendered
    fig_map         \* what show_map rendered

nameVars == <<name_in, name_out1, name_out2, pcn>>
heureVars == <<tranche_in, heure_out, pch>>
valVars == <<raw_val, df_val, pcv>>
garesVars == <<raw_gares, df_gares, pcg>>
widgetVars == <<selected_type_jour, selected_gares, plage_horaire>>
frameVars == <<df_merged, df_filtered, df_merged_filtered>>
figVars == <<fig_profil, fig_boxplot, fig_heatmap, fig_map>>
viewVars ==
    <<val_exists, gares_exists, pc, log, widgetVars, frameVars, figVars>>

vars == <<nameVars, heureVars, valVars, garesVars, viewVars>>

\* What a scenario leaves alone: the variables of the other scenarios.
notName == <<heureVars, valVars, garesVars, viewVars>>
notHeure == <<nameVars, valVars, garesVars, viewVars>>
notVal == <<nameVars, heureVars, garesVars, viewVars>>
notGares == <<nameVars, heureVars, valVars, viewVars>>
\* The view reads raw_val and raw_gares and fills df_val and df_gares.
notView == <<nameVars, heureVars, pcv, pcg, raw_val, raw_gares>>

-----------------------------------------------------------------------------
(* Cells *)

NaN == [t |-> "nan"]
Str(s) == [t |-> "str", s |-> s]
IntV(n) == [t |-> "int", n |-> n]
Num(n) == [t |-> "num", n |-> n]

\* isinstance(x, str)
IsStr(x) == x.t = "str"
\* pandas isna(): NaN and None
isna(x) == x.t = "nan"

-----------------------------------------------------------------------------
(* Python str methods, on sequences of characters *)

\* Characters Python's str.strip() / str.split() treat as whitespace.
Whitespace == {" "}

RECURSIVE Concat(_)
\* "".join(parts)
Concat(parts) ==
    IF parts = <<>> THEN <<>> ELSE Head(parts) \o Concat(Tail(parts))

RECURSIVE LStrip(_)
LStrip(s) ==
    IF s # <<>> /\ Head(s) \in Whitespace THEN LStrip(Tail(s)) ELSE s

RECURSIVE RStrip(_)
RStrip(s) ==
    IF s # <<>> /\ s[Len(s)] \in Whitespace
    THEN RStrip(SubSeq(s, 1, Len(s) - 1)) ELSE s

\* s.strip()
Strip(s) == LStrip(RStrip(s))

\* s.replace(c, rep) for a one-character c
Replace(s, c, rep) ==
    Concat([i \in 1..Len(s) |-> IF s[i] = c THEN rep ELSE <<s[i]>>])

RECURSIVE SplitOn(_, _, _)
\* s.split(sep) for a one-character sep: empty parts are kept.
\* cur is the part being read.
SplitOn(s, sep, cur) ==
    IF s = <<>> THEN <<cur>>
    ELSE IF Head(s) = sep THEN <<cur>> \o SplitOn(Tail(s), sep, <<>>)
    ELSE SplitOn(Tail(s), sep, Append(cur, Head(s)))

Split(s, sep) == SplitOn(s, sep, <<>>)

RECURSIVE SplitWs(_, _)
\* s.split(): split on runs of whitespace, no empty parts.
SplitWs(s, cur) ==
    IF s = <<>> THEN (IF cur = <<>> THEN <<>> ELSE <<cur>>)
    ELSE IF Head(s) \in Whitespace
         THEN (IF cur = <<>> THEN <<>> ELSE <<cur>>) \o SplitWs(Tail(s), <<>>)
         ELSE SplitWs(Tail(s), Append(cur, Head(s)))

RECURSIVE Join(_, _)
\* sep.join(parts)
Join(sep, parts) ==
    IF parts = <<>> THEN <<>>
    ELSE IF Len(parts) = 1 THEN Head(parts)
    ELSE Head(parts) \o sep \o Join(sep, Tail(parts))

\* str.lower() of one character
LowerChar(c) ==
    CASE c = "A" -> "a"
      [] c = "E" -> "e"
      [] c = "R" -> "r"
      [] c = "U" -> "u"
      [] c = "U+00C9" -> "U+00E9"
      [] OTHER -> c

\* s.lower()
Lower(s) == [i \in 1..Len(s) |-> LowerChar(s[i])]

\* unidecode.unidecode of one character: the ASCII text the library's table
\* gives (e-acute "e", euro sign "EUR", en dash "-", copyright sign "(c)");
\* ASCII is left as it is.
UnidecodeChar(c) ==
    CASE c = "U+00E9" -> <<"e">>
      [] c = "U+00C9" -> <<"E">>
      [] c = "U+20AC" -> <<"E", "U", "R">>
      [] c = "U+2013" -> <<"-">>
      [] c = "U+00A9" -> <<"(", "c", ")">>
      [] OTHER -> <<c>>

\* unidecode.unidecode(s)
unidecode(s) == Concat([i \in 1..Len(s) |-> UnidecodeChar(s[i])])

-----------------------------------------------------------------------------
(* clean_name *)

\* The body of clean_name for a str argument, step by step.
clean_name_str(s) ==
    LET s1 == Strip(Lower(s))
        s2 == unidecode(s1)
        s3 == Replace(Replace(s2, "(", <<>>), ")", <<>>)
        s4 == Replace(s3, "-", <<" ">>)
    IN  Join(<<" ">>, SplitWs(s4, <<>>))

clean_name(name) ==
    IF ~IsStr(name) THEN Str(<<>>) ELSE Str(clean_name_str(name.s))

-----------------------------------------------------------------------------
(* Number parsing *)

Digits == {"0", "1", "2", "3", "4", "5", "6", "7", "8", "9"}

DigitVal(c) ==
    CASE c = "0" -> 0 [] c = "1" -> 1 [] c = "2" -> 2 [] c = "3" -> 3
      [] c = "4" -> 4 [] c = "5" -> 5 [] c = "6" -> 6 [] c = "7" -> 7
      [] c = "8" -> 8 [] c = "9" -> 9

IsDigits(s) == s # <<>> /\ \A i \in 1..Len(s) : s[i] \in Digits

RECURSIVE DigitsVal(_)
\* The value of a digit string, read in base ten.
DigitsVal(s) ==
    IF s = <<>> THEN 0
    ELSE 10 * DigitsVal(SubSeq(s, 1, Len(s) - 1)) + DigitVal(s[Len(s)])

\* Python int(s) for a str: surrounding whitespace is ignored and the rest
\* must be decimal digits; NaN stands for the ValueError.  (Signs and digit
\* separators are outside the alphabets used here.)
IntOfStr(s) ==
    LET body == Strip(s)
    IN  IF IsDigits(body) THEN IntV(DigitsVal(body)) ELSE NaN

\* pd.to_numeric(x, errors="coerce") for one cell: a number stays, a str is
\* parsed as a decimal ("12", "12.5", "48.85"), anything else is NaN.  The
\* value is in hundredths; texts here carry at most two decimals.
to_numeric(x) ==
    IF x.t = "num" THEN x
    ELSE IF x.t = "int" THEN Num(100 * x.n)
    ELSE IF ~IsStr(x) THEN NaN
    ELSE LET parts == Split(Strip(x.s), ".")
             whole == parts[1]
             frac  == IF Len(parts) = 2 THEN parts[2] ELSE <<>>
             wellFormed ==
                 /\ Len(parts) \in {1, 2}
                 /\ whole # <<>> \/ frac # <<>>
                 /\ whole = <<>> \/ IsDigits(whole)
                 /\ frac = <<>> \/ (IsDigits(frac) /\ Len(frac) <= 2)
             fracVal == IF Len(frac) = 1 THEN 10 * DigitsVal(frac)
                        ELSE DigitsVal(frac)
         IN  IF wellFormed THEN Num(100 * DigitsVal(whole) + fracVal)
             ELSE NaN

-----------------------------------------------------------------------------
(* load_validations_data *)

\* parse_heure of load_validations_data: every "H" of the part before the
\* first "-" is removed, then int() is tried.
parse_heure(tranche) ==
    IF ~IsStr(tranche) THEN NaN
    ELSE LET part == Split(tranche.s, "-")[1]
         IN  IntOfStr(Replace(part, "H", <<>>))

\* df.dropna(subset=cols): the rows with no missing value in cols, in order.
dropna(df, cols) ==
    SelectSeq(df, LAMBDA row : \A c \in cols : ~isna(row[c]))

\* A dropna that forgets the percentage column.
ValSubsetWithoutPct == {"gare", "type_jour", "tranche_horaire", "heure"}

\* The subset of the dropna of load_validations_data.
ValSubset == {"gare", "type_jour", "tranche_horaire", "pct_validations", "heure"}

\* load_validations_data after read_csv and rename: pct coerced, heure
\* derived, rows with a missing value dropped, gare normalized.
load_validations_data(raw) ==
    LET typed == [i \in 1..Len(raw) |->
                    [gare |-> raw[i].gare,
                     type_jour |-> raw[i].type_jour,
                     tranche_horaire |-> raw[i].tranche_horaire,
                     pct_validations |-> to_numeric(raw[i].pct_validations),
                     heure |-> parse_heure(raw[i].tranche_horaire)]]
        kept == dropna(typed, ValSubset)
    IN  [i \in 1..Len(kept) |->
            [kept[i] EXCEPT !.gare = clean_name(kept[i].gare)]]

-----------------------------------------------------------------------------
(* load_gares_data *)

\* A row with column c set to v (df[c] = ...).
WithCol(row, c, v) ==
    [x \in (DOMAIN row) \cup {c} |-> IF x = c THEN v ELSE row[x]]

\* split_geo of load_gares_data: the two trimmed parts of "lat, lon", or
\* (None, None).
split_geo(s) ==
    IF IsStr(s)
    THEN LET parts == Split(s.s, ",")
         IN  IF Len(parts) = 2
             THEN <<Str(Strip(parts[1])), Str(Strip(parts[2]))>>
             ELSE <<NaN, NaN>>
    ELSE <<NaN, NaN>>

\* Lines 283-291: lat_str, lon_str from split_geo, then lat and lon each
\* coerced on its own.
AddLatLon(row) ==
    LET geo == split_geo(row["geo_point_2d"])
        r1 == WithCol(row, "lat_str", geo[1])
        r2 == WithCol(r1, "lon_str", geo[2])
        r3 == WithCol(r2, "lat", to_numeric(r2["lat_str"]))
    IN  WithCol(r3, "lon", to_numeric(r3["lon_str"]))

IndicatorCols == <<"termetro", "terrer", "tertrain", "tertram", "terval">>

IndicatorSet == {IndicatorCols[p] : p \in 1..Len(IndicatorCols)}

\* Lines 299-303: an indicator column the file lacks is created, all 0.
AddIndicators(row) ==
    [x \in (DOMAIN row) \cup IndicatorSet |->
        IF x \in DOMAIN row THEN row[x] ELSE IntV(0)]

\* The mode names of infer_mode: "Métro", "RER", "Train", "Tram", "VAL",
\* "Autre".
ModeMetro == Str(<<"M", "U+00E9", "t", "r", "o">>)
ModeRER == Str(<<"R", "E", "R">>)
ModeTrain == Str(<<"T", "r", "a", "i", "n">>)
ModeTram == Str(<<"T", "r", "a", "m">>)
ModeVAL == Str(<<"V", "A", "L">>)
ModeAutre == Str(<<"A", "u", "t", "r", "e">>)

\* Python x == 1 for a cell: the int 1 or the float 1.0.
EqOne(x) == x = IntV(1) \/ x = Num(100)

\* infer_mode with RER and Train tested in the wrong order.
infer_mode_train_first(row) ==
    IF EqOne(row["termetro"]) THEN ModeMetro
    ELSE IF EqOne(row["tertrain"]) THEN ModeTrain
    ELSE IF EqOne(row["terrer"]) THEN ModeRER
    ELSE IF EqOne(row["tertram"]) THEN ModeTram
    ELSE IF EqOne(row["terval"]) THEN ModeVAL
    ELSE ModeAutre

\* infer_mode of load_gares_data
infer_mode(row) ==
    IF EqOne(row["termetro"]) THEN ModeMetro
    ELSE IF EqOne(row["terrer"]) THEN ModeRER
    ELSE IF EqOne(row["tertrain"]) THEN ModeTrain
    ELSE IF EqOne(row["tertram"]) THEN ModeTram
    ELSE IF EqOne(row["terval"]) THEN ModeVAL
    ELSE ModeAutre

\* keep_cols of load_gares_data (lines 339-361)
KeepCols ==
    {"gare", "lat", "lon", "mode", "exploitant"} \cup IndicatorSet

\* load_gares_data after read_csv and the rename of nom_long: coordinates,
\* indicator columns, mode, projection, rows without a name dropped, name
\* normalized.
load_gares_data(raw) ==
    LET geo(r) == IF "geo_point_2d" \in raw.cols THEN AddLatLon(r) ELSE r
        mode(r) == IF "mode" \in raw.cols THEN r
                   ELSE WithCol(r, "mode", infer_mode(r))
        keep(r) == [x \in KeepCols \cap DOMAIN r |-> r[x]]
        built == [i \in 1..Len(raw.rows) |->
                     keep(mode(AddIndicators(geo(raw.rows[i]))))]
        named == dropna(built, {"gare"})
    IN  [i \in 1..Len(named) |->
            [named[i] EXCEPT !["gare"] = clean_name(named[i]["gare"])]]

-----------------------------------------------------------------------------
(* merge_validations_gares *)

\* The columns of the frame load_gares_data returns for a source with
\* columns cols.
GaresColumns(cols) ==
    KeepCols \cap (cols \cup IndicatorSet \cup {"mode"}
                   \cup (IF "geo_point_2d" \in cols THEN {"lat", "lon"} ELSE {}))

\* One row of a merge: the left row with the right row's other columns.
JoinRow(v, s, rightCols) ==
    [x \in (DOMAIN v) \cup rightCols |-> IF x \in DOMAIN v THEN v[x] ELSE s[x]]

\* An inner join: a validations row without a station is dropped.
merge_inner(dv, dg, gcols) ==
    LET stationCols == gcols \ {"gare"}
        block(v) ==
            LET ms == SelectSeq(dg, LAMBDA s : s["gare"] = v["gare"])
            IN  [j \in 1..Len(ms) |-> JoinRow(v, ms[j], stationCols)]
    IN  Concat([i \in 1..Len(dv) |-> block(dv[i])])

\* df_val.merge(df_gares, on="gare", how="left"): for each validations row,
\* in order, one row per station row with the same key, or one row with the
\* station columns missing.  gcols are the columns of df_gares.
merge_validations_gares(dv, dg, gcols) ==
    LET stationCols == gcols \ {"gare"}
        nullSide == [x \in stationCols |-> NaN]
        block(v) ==
            LET ms == SelectSeq(dg, LAMBDA s : s["gare"] = v["gare"])
            IN  IF ms = <<>> THEN <<JoinRow(v, nullSide, stationCols)>>
                ELSE [j \in 1..Len(ms) |-> JoinRow(v, ms[j], stationCols)]
    IN  Concat([i \in 1..Len(dv) |-> block(dv[i])])

-----------------------------------------------------------------------------
(* The aggregation views *)

\* The values of column c of a frame (df[c].unique(), as a set).
Unique(df, c) == {df[i][c] : i \in 1..Len(df)}

\* ord(c) for the characters of a normalized key.
CodePoint(c) ==
    CASE c = " " -> 32
      [] c \in Digits -> 48 + DigitVal(c)
      [] c = "a" -> 97 [] c = "b" -> 98 [] c = "c" -> 99
      [] c = "e" -> 101 [] c = "r" -> 114 [] c = "u" -> 117

RECURSIVE StrLess(_, _)
\* Python s < t on str
StrLess(s, u) ==
    IF u = <<>> THEN FALSE
    ELSE IF s = <<>> THEN TRUE
    ELSE IF Head(s) = Head(u) THEN StrLess(Tail(s), Tail(u))
    ELSE CodePoint(Head(s)) < CodePoint(Head(u))

\* The order of sort_values(["gare", "heure"]).
GareHeureLess(r, q) ==
    \/ StrLess(r.gare.s, q.gare.s)
    \/ r.gare = q.gare /\ r.heure.n < q.heure.n

RECURSIVE InsertSorted(_, _)
InsertSorted(sorted, r) ==
    IF sorted = <<>> THEN <<r>>
    ELSE IF GareHeureLess(r, Head(sorted)) THEN <<r>> \o sorted
    ELSE <<Head(sorted)>> \o InsertSorted(Tail(sorted), r)

RECURSIVE SortGareHeure(_)
\* df.sort_values(["gare", "heure"])
SortGareHeure(df) ==
    IF df = <<>> THEN <<>>
    ELSE InsertSorted(SortGareHeure(SubSeq(df, 1, Len(df) - 1)), df[Len(df)])

NotRendered == [kind |-> "none"]
Info == [kind |-> "info"]

\* plot_profil_horaire: the frame drawn, sorted by station then hour.
plot_profil_horaire(df) ==
    IF df = <<>> THEN Info
    ELSE [kind |-> "line", rows |-> SortGareHeure(df)]

RECURSIVE SumPct(_)
\* The sum of pct_validations over a frame, in hundredths.
SumPct(df) ==
    IF df = <<>> THEN 0
    ELSE df[1]["pct_validations"].n + SumPct(Tail(df))

\* Twice the median of pct_validations over a non-empty frame: the middle
\* value, or the mean of the two middle ones.
Median2(df) ==
    LET n == Len(df)
        val(i) == df[i]["pct_validations"].n
        \* the k-th smallest value, counting repetitions
        kth(k) == CHOOSE x \in {val(i) : i \in 1..n} :
                     /\ Cardinality({i \in 1..n : val(i) < x}) < k
                     /\ Cardinality({i \in 1..n : val(i) <= x}) >= k
    IN  IF n % 2 = 1 THEN 2 * kth((n + 1) \div 2)
        ELSE kth(n \div 2) + kth(n \div 2 + 1)

\* plot_boxplot: the rows with a mode, and per mode twice the median that
\* orders the categories.
plot_boxplot(df) ==
    LET df_plot == dropna(df, {"mode"})
    IN  IF df_plot = <<>> THEN Info
        ELSE [kind |-> "box", rows |-> df_plot,
              median2 |-> [m \in Unique(df_plot, "mode") |->
                  Median2(SelectSeq(df_plot, LAMBDA r : r["mode"] = m))]]

\* plot_heatmap with the pivot's missing cells filled with a mean of 0.
plot_heatmap_fill_zero(df) ==
    IF df = <<>> THEN [kind |-> "returned"]
    ELSE LET days == Unique(df, "type_jour")
             hours == Unique(df, "heure")
             rowsOf(d, h) ==
                 SelectSeq(df, LAMBDA r : r.type_jour = d /\ r.heure = h)
         IN  [kind |-> "imshow", index |-> days, columns |-> hours,
              cells |-> [c \in days \X hours |->
                  [t |-> "mean", sum |-> SumPct(rowsOf(c[1], c[2])),
                   n |-> IF rowsOf(c[1], c[2]) = <<>> THEN 1
                         ELSE Len(rowsOf(c[1], c[2]))]]]

\* plot_heatmap: nothing for an empty frame; else the pivot of the mean of
\* pct_validations by (type_jour, heure).  A mean is kept as its sum and its
\* count; a pair without rows is a missing cell.
plot_heatmap(df) ==
    IF df = <<>> THEN [kind |-> "returned"]
    ELSE LET days == Unique(df, "type_jour")
             hours == Unique(df, "heure")
             rowsOf(d, h) ==
                 SelectSeq(df, LAMBDA r : r.type_jour = d /\ r.heure = h)
         IN  [kind |-> "imshow", index |-> days, columns |-> hours,
              cells |-> [c \in days \X hours |->
                  IF rowsOf(c[1], c[2]) = <<>> THEN NaN
                  ELSE [t |-> "mean", sum |-> SumPct(rowsOf(c[1], c[2])),
                        n |-> Len(rowsOf(c[1], c[2]))]]]

\* The keys of the groupby of show_map.
MapKeys == {"gare", "lat", "lon", "mode", "exploitant"}

\* show_map: rows without lat or lon are dropped; the groupby drops the rows
\* with a missing value in any key (pandas' dropna=True) and sums
\* pct_validations per group.
show_map(df_merged_in) ==
    LET df_map == dropna(df_merged_in, {"lat", "lon"})
    IN  IF df_map = <<>> THEN Info
        ELSE LET grouped == dropna(df_map, MapKeys)
                 keyOf(r) == [x \in MapKeys |-> r[x]]
                 keys == {keyOf(grouped[i]) : i \in 1..Len(grouped)}
             IN  [kind |-> "scatter_mapbox",
                  groups |-> {[key |-> k,
                               total_pct_validations |->
                                 SumPct(SelectSeq(grouped,
                                     LAMBDA r : keyOf(r) = k))] : k \in keys}]

-----------------------------------------------------------------------------
(* Bounds *)

\* Longest station name given to clean_name in the clean_name scenario.
MaxNameLen == 3
\* Longest hour-bucket label given to parse_heure in its scenario.
MaxLabelLen == 5
\* Most rows of the validations file in the loader scenario.
MaxValRows == 2
\* Most rows of the stations file in the loader scenario.
MaxGaresRows == 1
\* Most rows of the validations file and of the stations file in the view
\* scenario.
MaxViewValRows == 2
MaxViewGaresRows == 2

-----------------------------------------------------------------------------
(* Scenario 1: clean_name applied to a name, then to its own result *)

NameAlphabet ==
    {"a", "A", " ", "(", ")", "-", "U+00E9", "U+20AC", "U+2013", "U+00A9"}

RECURSIVE StringsUpTo(_, _)
\* Every string over alphabet of length at most n.
StringsUpTo(alphabet, n) ==
    IF n = 0 THEN {<<>>}
    ELSE LET shorter == StringsUpTo(alphabet, n - 1)
         IN  shorter \cup {Append(s, c) : s \in shorter, c \in alphabet}

NameInputs ==
    {Str(s) : s \in StringsUpTo(NameAlphabet, MaxNameLen)} \cup {NaN, IntV(42)}

InitName ==
    /\ name_in \in NameInputs
    /\ name_out1 = NaN
    /\ name_out2 = NaN
    /\ pcn = "in"

\* key = clean_name(x)
CleanNameFirst ==
    /\ pcn = "in"
    /\ name_out1' = clean_name(name_in)
    /\ pcn' = "once"
    /\ UNCHANGED <<name_in, name_out2, notName>>

\* clean_name(key): the normalizer applied to an already normalized key
CleanNameSecond ==
    /\ pcn = "once"
    /\ name_out2' = clean_name(name_out1)
    /\ pcn' = "twice"
    /\ UNCHANGED <<name_in, name_out1, notName>>

NextName == CleanNameFirst \/ CleanNameSecond

-----------------------------------------------------------------------------
(* Scenario 2: parse_heure applied to one hour-bucket label *)

LabelAlphabet == {"6", "7", "H", "-", "a", " "}

LabelInputs ==
    {Str(s) : s \in StringsUpTo(LabelAlphabet, MaxLabelLen)} \cup {NaN, IntV(6)}

InitHeure ==
    /\ tranche_in \in LabelInputs
    /\ heure_out = NaN
    /\ pch = "in"

\* df["tranche_horaire"].apply(parse_heure), for one cell
ParseHeure ==
    /\ pch = "in"
    /\ heure_out' = parse_heure(tranche_in)
    /\ pch' = "parsed"
    /\ UNCHANGED <<tranche_in, notHeure>>

NextHeure == ParseHeure

-----------------------------------------------------------------------------
(* Scenario 3: load_validations_data on a small file *)

\* "6H-7H", "abc", "12.5", "12,5" as character sequences
Label6H7H == <<"6", "H", "-", "7", "H">>
LabelAbc == <<"a", "b", "c">>
Pct12Dot5 == <<"1", "2", ".", "5">>
Pct12Comma5 == <<"1", "2", ",", "5">>

\* The rows read_csv can deliver: each cell present or missing, the label a
\* bucket, free text or a number, the percentage with a dot or a comma.
RawValRows ==
    [gare : {Str(<<"A", "-", "a">>), NaN},
     type_jour : {Str(<<"J">>), NaN},
     tranche_horaire : {Str(Label6H7H), Str(LabelAbc), IntV(6), NaN},
     pct_validations : {Str(Pct12Dot5), Str(Pct12Comma5), NaN}]

RECURSIVE SeqsUpTo(_, _)
\* Every sequence over S of length at most n.
SeqsUpTo(S, n) ==
    IF n = 0 THEN {<<>>}
    ELSE LET shorter == SeqsUpTo(S, n - 1)
         IN  shorter \cup {Append(s, x) : s \in shorter, x \in S}

InitVal ==
    /\ raw_val \in SeqsUpTo(RawValRows, MaxValRows)
    /\ df_val = <<>>
    /\ pcv = "in"

LoadValidations ==
    /\ pcv = "in"
    /\ df_val' = load_validations_data(raw_val)
    /\ pcv' = "loaded"
    /\ UNCHANGED <<raw_val, notVal>>

NextVal == LoadValidations

-----------------------------------------------------------------------------
(* Scenario 4: load_gares_data on a small file *)

\* "48.85, 2.35" and malformed variants, as character sequences
Geo4885_235 == <<"4", "8", ".", "8", "5", ",", " ", "2", ".", "3", "5">>
GeoNoComma == <<"4", "8", ".", "8", "5">>
GeoBadLon == <<"4", "8", ".", "8", "5", ",", " ", "a", "b", "c">>
GeoThreeParts == <<"1", ",", "2", ",", "3">>

NameAa == <<"A", "-", "a">>
OperatorSNCF == <<"S", "N", "C", "F">>

\* "Bus": a value of a mode column of the file that infer_mode never gives
ModeBus == Str(<<"B", "u", "s">>)

\* Every column the stations file may carry.
AllGaresCols ==
    {"gare", "geo_point_2d", "mode", "exploitant"} \cup IndicatorSet

\* A well-formed row over every column, with no indicator set.
BaseGaresRow ==
    [x \in AllGaresCols |->
        CASE x = "gare" -> Str(NameAa)
          [] x = "geo_point_2d" -> Str(Geo4885_235)
          [] x = "mode" -> ModeRER
          [] x = "exploitant" -> Str(OperatorSNCF)
          [] OTHER -> IntV(0)]

\* The rows of the scenario: the base row with its name, its geo point, its
\* operator, its explicit mode or its indicators varied.
FullGaresRows ==
    {WithCol(BaseGaresRow, "gare", v) :
        v \in {Str(<<"(", ")">>), Str(<<" ", "-">>), IntV(42), NaN}}
    \cup {WithCol(BaseGaresRow, "geo_point_2d", v) :
        v \in {Str(GeoNoComma), Str(GeoBadLon), Str(GeoThreeParts),
               Num(4885), NaN}}
    \cup {WithCol(BaseGaresRow, "exploitant", NaN)}
    \cup {WithCol(BaseGaresRow, "mode", v) : v \in {NaN, ModeBus}}
    \cup {[x \in AllGaresCols |->
              IF x \in IndicatorSet
              THEN (IF x \in ones THEN IntV(1) ELSE IntV(0))
              ELSE BaseGaresRow[x]] : ones \in SUBSET IndicatorSet}
    \cup {WithCol(WithCol(BaseGaresRow, "termetro", v), "terrer", IntV(1)) :
        v \in {NaN, Num(100), IntV(2)}}

\* The column sets of the scenario: the name and the operator, and any of
\* the optional columns.
GaresColSets ==
    {{"gare", "exploitant"} \cup opt :
        opt \in SUBSET ({"geo_point_2d", "mode"} \cup IndicatorSet)}

InitGares ==
    /\ \E cols \in GaresColSets :
          \E rows \in SeqsUpTo({[x \in cols |-> r[x]] : r \in FullGaresRows},
                               MaxGaresRows) :
              raw_gares = [cols |-> cols, rows |-> rows]
    /\ df_gares = <<>>
    /\ pcg = "in"

LoadGares ==
    /\ pcg = "in"
    /\ df_gares' = load_gares_data(raw_gares)
    /\ pcg' = "loaded"
    /\ UNCHANGED <<raw_gares, notGares>>

NextGares == LoadGares

-----------------------------------------------------------------------------
(* Scenario 5: one run of show_transport_dashboard *)

Semaine == Str(<<"s", "e", "m", "a", "i", "n", "e">>)
Samedi == Str(<<"s", "a", "m", "e", "d", "i">>)
Tous == Str(<<"T", "o", "u", "s">>)
Label7H8H == <<"7", "H", "-", "8", "H">>
Pct2 == <<"2", ".", "0">>
Pct3 == <<"3", ".", "0">>

ValRow(g, d, label, pct) ==
    [gare |-> Str(g), type_jour |-> d, tranche_horaire |-> Str(label),
     pct_validations |-> Str(pct)]

\* The validations rows of the view scenario: station "A-a" on two day
\* types and two hours, and a second station sharing a day type and hour
\* with it.
ViewValRows ==
    {ValRow(NameAa, Semaine, Label6H7H, Pct2),
     ValRow(NameAa, Samedi, Label7H8H, Pct3),
     ValRow(<<"b">>, Semaine, Label6H7H, Pct3)}

GaresRow(g, geo, op, metro, rer) ==
    [x \in AllGaresCols \ {"mode"} |->
        CASE x = "gare" -> Str(g)
          [] x = "geo_point_2d" -> geo
          [] x = "exploitant" -> op
          [] x = "termetro" -> IntV(metro)
          [] x = "terrer" -> IntV(rer)
          [] OTHER -> IntV(0)]

\* The stations rows of the view scenario: two raw names with the same key,
\* a station without operator, a station without coordinates.
ViewGaresRows ==
    {GaresRow(NameAa, Str(Geo4885_235), Str(OperatorSNCF), 1, 0),
     GaresRow(<<"a", " ", "a">>, Str(Geo4885_235), Str(OperatorSNCF), 0, 1),
     GaresRow(<<"b">>, Str(Geo4885_235), NaN, 0, 0),
     GaresRow(<<"b">>, NaN, Str(OperatorSNCF), 1, 0)}

InitView ==
    /\ val_exists \in BOOLEAN
    /\ gares_exists \in BOOLEAN
    \* a missing file has no content
    /\ raw_val \in IF val_exists THEN SeqsUpTo(ViewValRows, MaxViewValRows)
                   ELSE {<<>>}
    /\ \E rows \in IF gares_exists
                    THEN SeqsUpTo(ViewGaresRows, MaxViewGaresRows)
                    ELSE {<<>>} :
          raw_gares = [cols |-> AllGaresCols \ {"mode"}, rows |-> rows]
    /\ df_val = <<>>
    /\ df_gares = <<>>
    /\ pc = "check_files"
    /\ log = <<>>
    /\ df_merged = <<>>
    /\ selected_type_jour = Tous
    /\ selected_gares = {}
    /\ plage_horaire = <<0, 0>>
    /\ df_filtered = <<>>
    /\ df_merged_filtered = <<>>
    /\ fig_profil = NotRendered
    /\ fig_boxplot = NotRendered
    /\ fig_heatmap = NotRendered
    /\ fig_map = NotRendered

\* The test of line 678 with "and" for "or": the view goes on unless both
\* files are missing.
FilesMissingBoth(v, g) == ~v /\ ~g

\* The test of line 678: either source file is missing.
FilesMissing(v, g) == ~v \/ ~g

\* Lines 678-702: error messages and return when a file is missing.
CheckFiles ==
    /\ pc = "check_files"
    /\ pc' = IF FilesMissing(val_exists, gares_exists)
             THEN "returned" ELSE "load_validations_data"
    /\ UNCHANGED <<val_exists, gares_exists, log, widgetVars, frameVars,
                   figVars, df_val, df_gares, notView>>

\* Line 706.  read_csv raises on a missing file.
ViewLoadValidations ==
    /\ pc = "load_validations_data"
    /\ IF val_exists
       THEN /\ df_val' = load_validations_data(raw_val)
            /\ log' = Append(log, "load_validations_data")
            /\ pc' = "load_gares_data"
       ELSE /\ pc' = "raised"
            /\ UNCHANGED <<df_val, log>>
    /\ UNCHANGED <<val_exists, gares_exists, widgetVars, frameVars, figVars,
                   df_gares, notView>>

\* Line 708.
ViewLoadGares ==
    /\ pc = "load_gares_data"
    /\ IF gares_exists
       THEN /\ df_gares' = load_gares_data(raw_gares)
            /\ log' = Append(log, "load_gares_data")
            /\ pc' = "merge_validations_gares"
       ELSE /\ pc' = "raised"
            /\ UNCHANGED <<df_gares, log>>
    /\ UNCHANGED <<val_exists, gares_exists, widgetVars, frameVars, figVars,
                   df_val, notView>>

\* Line 710.
ViewMerge ==
    /\ pc = "merge_validations_gares"
    /\ df_merged' = merge_validations_gares(df_val, df_gares,
                                            GaresColumns(raw_gares.cols))
    /\ log' = Append(log, "merge_validations_gares")
    /\ pc' = "filters"
    /\ UNCHANGED <<val_exists, gares_exists, widgetVars, df_filtered,
                   df_merged_filtered, figVars, df_val, df_gares, notView>>

\* df_val["heure"].min() / .max() of a non-empty frame
MinHeure(df) ==
    CHOOSE h \in {df[i].heure.n : i \in 1..Len(df)} :
        \A i \in 1..Len(df) : h <= df[i].heure.n
MaxHeure(df) ==
    CHOOSE h \in {df[i].heure.n : i \in 1..Len(df)} :
        \A i \in 1..Len(df) : h >= df[i].heure.n

\* Lines 793-809: df_filtered from the three widget values.
FilterValidations(df, type_jour, gares, plage) ==
    SelectSeq(df, LAMBDA r :
        /\ type_jour # Tous => r.type_jour = type_jour
        /\ gares # {} => r.gare \in gares
        /\ r.heure.n >= plage[1]
        /\ r.heure.n <= plage[2])

FilterKeys == {"gare", "type_jour", "heure", "pct_validations"}

\* Lines 813-821: df_merged inner-merged with the four columns of
\* df_filtered: each row of df_merged once per row of df_filtered equal to
\* it on the four columns.
MergeFiltered(merged, filtered) ==
    LET same(m, f) == \A c \in FilterKeys : m[c] = f[c]
        block(m) ==
            LET fs == SelectSeq(filtered, LAMBDA f : same(m, f))
            IN  [j \in 1..Len(fs) |-> m]
    IN  Concat([i \in 1..Len(merged) |-> block(merged[i])])

\* Lines 754-821: the widgets and the two filtered frames.  The hour bounds
\* are int(df_val["heure"].min()) and .max(): on an empty df_val the minimum
\* is NaN and int() raises ValueError.
Filters ==
    /\ pc = "filters"
    /\ IF df_val = <<>>
       THEN /\ pc' = "raised"
            /\ UNCHANGED <<widgetVars, df_filtered, df_merged_filtered>>
       ELSE \E tj \in {Tous} \cup Unique(df_val, "type_jour") :
            \E sg \in SUBSET Unique(dropna(df_merged, {"mode"}), "gare") :
            \E lo \in MinHeure(df_val)..MaxHeure(df_val) :
            \E hi \in lo..MaxHeure(df_val) :
               LET filtered == FilterValidations(df_val, tj, sg, <<lo, hi>>)
               IN  /\ selected_type_jour' = tj
                   /\ selected_gares' = sg
                   /\ plage_horaire' = <<lo, hi>>
                   /\ df_filtered' = filtered
                   /\ df_merged_filtered' = MergeFiltered(df_merged, filtered)
                   /\ pc' = "plot_profil_horaire"
    /\ UNCHANGED <<val_exists, gares_exists, log, df_merged, figVars, df_val,
                   df_gares, notView>>

\* Line 858.
ViewProfil ==
    /\ pc = "plot_profil_horaire"
    /\ fig_profil' = plot_profil_horaire(df_filtered)
    /\ log' = Append(log, "plot_profil_horaire")
    /\ pc' = "plot_boxplot"
    /\ UNCHANGED <<val_exists, gares_exists, widgetVars, frameVars,
                   fig_boxplot, fig_heatmap, fig_map, df_val, df_gares,
                   notView>>

\* Line 867.
ViewBoxplot ==
    /\ pc = "plot_boxplot"
    /\ fig_boxplot' = plot_boxplot(df_merged_filtered)
    /\ log' = Append(log, "plot_boxplot")
    /\ pc' = "plot_heatmap"
    /\ UNCHANGED <<val_exists, gares_exists, widgetVars, frameVars,
                   fig_profil, fig_heatmap, fig_map, df_val, df_gares,
                   notView>>

\* Lines 878-891.
ViewHeatmap ==
    /\ pc = "plot_heatmap"
    /\ fig_heatmap' =
          IF selected_type_jour = Tous THEN plot_heatmap(df_filtered)
          ELSE plot_heatmap(SelectSeq(df_val,
                                      LAMBDA r : r.gare \in selected_gares))
    /\ log' = Append(log, "plot_heatmap")
    /\ pc' = "show_map"
    /\ UNCHANGED <<val_exists, gares_exists, widgetVars, frameVars,
                   fig_profil, fig_boxplot, fig_map, df_val, df_gares,
                   notView>>

\* Line 902.
ViewMap ==
    /\ pc = "show_map"
    /\ fig_map' = show_map(df_merged_filtered)
    /\ log' = Append(log, "show_map")
    /\ pc' = "done"
    /\ UNCHANGED <<val_exists, gares_exists, widgetVars, frameVars,
                   fig_profil, fig_boxplot, fig_heatmap, df_val, df_gares,
                   notView>>

NextView ==
    \/ CheckFiles
    \/ ViewLoadValidations
    \/ ViewLoadGares
    \/ ViewMerge
    \/ Filters
    \/ ViewProfil
    \/ ViewBoxplot
    \/ ViewHeatmap
    \/ ViewMap

-----------------------------------------------------------------------------
(* Specifications *)

\* The variables of a scenario that is not running.
IdleName == name_in = NaN /\ name_out1 = NaN /\ name_out2 = NaN /\ pcn = "idle"
IdleHeure == tranche_in = NaN /\ heure_out = NaN /\ pch = "idle"
IdleVal == raw_val = <<>> /\ df_val = <<>> /\ pcv = "idle"
IdleGares ==
    raw_gares = [cols |-> {}, rows |-> <<>>] /\ df_gares = <<>> /\ pcg = "idle"
IdleView ==
    /\ val_exists = FALSE /\ gares_exists = FALSE
    /\ pc = "idle" /\ log = <<>>
    /\ selected_type_jour = Tous /\ selected_gares = {}
    /\ plage_horaire = <<0, 0>>
    /\ df_merged = <<>> /\ df_filtered = <<>> /\ df_merged_filtered = <<>>
    /\ fig_profil = NotRendered /\ fig_boxplot = NotRendered
    /\ fig_heatmap = NotRendered /\ fig_map = NotRendered

StartName == InitName /\ IdleHeure /\ IdleVal /\ IdleGares /\ IdleView

SpecName == StartName /\ [][NextName]_vars

StartHeure == InitHeure /\ IdleName /\ IdleVal /\ IdleGares /\ IdleView

SpecHeure == StartHeure /\ [][NextHeure]_vars

StartVal == InitVal /\ IdleName /\ IdleHeure /\ IdleGares /\ IdleView

SpecVal == StartVal /\ [][NextVal]_vars

StartGares == InitGares /\ IdleName /\ IdleHeure /\ IdleVal /\ IdleView

SpecGares == StartGares /\ [][NextGares]_vars

StartView == InitView /\ IdleName /\ IdleHeure /\ pcv = "idle" /\ pcg = "idle"

SpecView == StartView /\ [][NextView]_vars


-----------------------------------------------------------------------------
(* C2 *)

IsLowerChar(c) == LowerChar(c) = c

HasDoubleSpace(s) == \E i \in 1..(Len(s) - 1) : s[i] = " " /\ s[i + 1] = " "

\* C2: clean_name is idempotent, and its result is already lowercase with no
\* parenthesis, no hyphen and no run of several spaces, for every input
\* (string or not), also when the transliteration emits characters.
C2_Idempotent ==
    /\ pcn = "twice" => name_out2 = name_out1
    /\ pcn # "in" =>
          /\ IsStr(name_out1)
          /\ \A i \in 1..Len(name_out1.s) :
                /\ IsLowerChar(name_out1.s[i])
                /\ name_out1.s[i] \notin {"(", ")", "-"}
          /\ ~HasDoubleSpace(name_out1.s)

-----------------------------------------------------------------------------
(* C4 *)

\* The part of a label before the first "-", with only its trailing unit
\* letter removed.
StemTrailing(s) ==
    LET part == Split(s, "-")[1]
    IN  IF part # <<>> /\ part[Len(part)] = "H"
        THEN SubSeq(part, 1, Len(part) - 1) ELSE part

\* C4: the derived hour is the integer read from the part of the label
\* before the first "-" with its trailing "H" stripped; it is null when that
\* text is not an integer or the label is not a string.
C4_TrailingUnitOnly ==
    pch = "parsed" =>
        heure_out = IF IsStr(tranche_in)
                    THEN IntOfStr(StemTrailing(tranche_in.s)) ELSE NaN

-----------------------------------------------------------------------------
(* C3 *)

\* The rows of the source the claim says are kept.
C3_Kept(raw) ==
    {i \in 1..Len(raw) :
        /\ ~isna(raw[i].gare)
        /\ ~isna(raw[i].type_jour)
        /\ ~isna(raw[i].tranche_horaire)
        /\ to_numeric(raw[i].pct_validations) # NaN
        /\ parse_heure(raw[i].tranche_horaire) # NaN}

\* The j-th smallest index of a set of row indices.
NthOf(kept, j) ==
    CHOOSE i \in kept : Cardinality({k \in kept : k <= i}) = j

\* C3: load_validations_data keeps exactly the rows whose station, day type
\* and label are present, whose percentage is a number and whose hour parses;
\* the kept rows stay in order with their own values (the percentage as a
\* number, the hour as an integer), whatever the other rows are.
C3_KeepsExactlyValidRows ==
    pcv = "loaded" =>
        LET kept == C3_Kept(raw_val)
        IN  /\ Len(df_val) = Cardinality(kept)
            /\ \A j \in 1..Len(df_val) :
                  LET src == raw_val[NthOf(kept, j)]
                  IN  /\ df_val[j].type_jour = src.type_jour
                      /\ df_val[j].tranche_horaire = src.tranche_horaire
                      /\ df_val[j].pct_validations.t = "num"
                      /\ df_val[j].heure.t = "int"
                      /\ src.pct_validations = Str(Pct12Dot5)
                            => df_val[j].pct_validations = Num(1250)
                      /\ src.tranche_horaire = Str(Label6H7H)
                            => df_val[j].heure = IntV(6)
            /\ \A i \in 1..Len(raw_val) :
                  raw_val[i].pct_validations = Str(Pct12Comma5) => i \notin kept

\* A file with a good row after a row with a comma percentage is loaded: the
\* bad row is gone and the good one is there with 12.5 and hour 6.
C3_Witness ==
    /\ pcv = "loaded"
    /\ Len(raw_val) = 2
    /\ raw_val[1].pct_validations = Str(Pct12Comma5)
    /\ raw_val[1].tranche_horaire = Str(Label6H7H)
    /\ ~isna(raw_val[1].gare) /\ ~isna(raw_val[1].type_jour)
    /\ Len(df_val) = 1
    /\ df_val[1].pct_validations = Num(1250)
    /\ df_val[1].heure = IntV(6)

-----------------------------------------------------------------------------
(* C5, C6, C7 *)

\* The rows of the stations source that carry a name, by index.
NamedRows(raw) == {i \in 1..Len(raw.rows) : ~isna(raw.rows[i]["gare"])}

\* The modes in priority order, one per indicator column.
ModeByPriority == <<ModeMetro, ModeRER, ModeTrain, ModeTram, ModeVAL>>

\* C5: without an explicit mode column every returned row has the mode of
\* the first indicator equal to 1 in the order termetro, terrer, tertrain,
\* tertram, terval, and "Autre" when none is 1; an indicator column the
\* source lacks counts as 0 and the load still returns a row per named row.
C5_PriorityMode ==
    (pcg = "loaded" /\ "mode" \notin raw_gares.cols) =>
        LET kept == NamedRows(raw_gares)
        IN  /\ Len(df_gares) = Cardinality(kept)
            /\ \A j \in 1..Len(df_gares) :
                  LET src == raw_gares.rows[NthOf(kept, j)]
                      ind(p) == IF IndicatorCols[p] \in raw_gares.cols
                                THEN src[IndicatorCols[p]] ELSE IntV(0)
                      hits == {p \in 1..5 : EqOne(ind(p))}
                  IN  /\ hits = {} => df_gares[j]["mode"] = ModeAutre
                      /\ \A p \in hits :
                            (\A q \in hits : p <= q)
                                => df_gares[j]["mode"] = ModeByPriority[p]
                      /\ \A p \in 1..5 :
                            IndicatorCols[p] \notin raw_gares.cols
                                => df_gares[j][IndicatorCols[p]] = IntV(0)

\* A file without the termetro column and without a mode column, whose row
\* has terrer = 1 and tertrain = 1, is loaded: the row is RER.
C5_Witness ==
    /\ pcg = "loaded"
    /\ "mode" \notin raw_gares.cols
    /\ "termetro" \notin raw_gares.cols
    /\ {"terrer", "tertrain"} \subseteq raw_gares.cols
    /\ Len(raw_gares.rows) = 1
    /\ raw_gares.rows[1]["terrer"] = IntV(1)
    /\ raw_gares.rows[1]["tertrain"] = IntV(1)
    /\ Len(df_gares) = 1
    /\ df_gares[1]["mode"] = ModeRER
    /\ df_gares[1]["termetro"] = IntV(0)

\* C6: in every returned station row lat and lon are both null or both
\* non-null; a geo point that is missing, does not split into two parts or
\* has a part that is not a number gives null for both, and "48.85, 2.35"
\* gives both values.
C6_LatLonTogether ==
    (pcg = "loaded" /\ "geo_point_2d" \in raw_gares.cols) =>
        LET kept == NamedRows(raw_gares)
        IN  \A j \in 1..Len(df_gares) :
               LET src == raw_gares.rows[NthOf(kept, j)]
               IN  /\ isna(df_gares[j]["lat"]) <=> isna(df_gares[j]["lon"])
                   /\ src["geo_point_2d"] = Str(Geo4885_235)
                         => /\ df_gares[j]["lat"] = Num(4885)
                            /\ df_gares[j]["lon"] = Num(235)

\* C7: no returned station record has an empty station key.
C7_NoEmptyKey ==
    pcg = "loaded" =>
        \A j \in 1..Len(df_gares) : df_gares[j]["gare"] # Str(<<>>)

-----------------------------------------------------------------------------
(* C11 *)

\* The six mode names.
ModeEnum == {ModeMetro, ModeRER, ModeTrain, ModeTram, ModeVAL, ModeAutre}

\* C11: every station row returned by load_gares_data has a mode among the
\* six names, whether the mode was inferred from the indicators or taken
\* from a mode column of the source.
C11_ModeInEnum ==
    pcg = "loaded" =>
        \A j \in 1..Len(df_gares) : df_gares[j]["mode"] \in ModeEnum

-----------------------------------------------------------------------------
(* C12 *)

\* The heatmap stage has run.
HeatmapDone == Len(log) >= 6

\* The frame the view hands to plot_heatmap.
HeatmapInput ==
    IF selected_type_jour = Tous THEN df_filtered
    ELSE SelectSeq(df_val, LAMBDA r : r.gare \in selected_gares)

RECURSIVE SumOver(_, _)
\* The sum of pct_validations over the rows of df with index in I.
SumOver(df, I) ==
    IF I = {} THEN 0
    ELSE LET i == CHOOSE x \in I : TRUE
         IN  df[i]["pct_validations"].n + SumOver(df, I \ {i})

\* C12: the heatmap matrix has one row per day type and one column per hour
\* present in the input; the cell (d, h) is the arithmetic mean of
\* pct_validations over the input rows with day type d and hour h, and a
\* pair (d, h) without input row is a missing cell, never 0.
C12_HeatmapMeans ==
    (HeatmapDone /\ HeatmapInput # <<>>) =>
        LET df == HeatmapInput
            at(d, h) == {i \in 1..Len(df) :
                            df[i].type_jour = d /\ df[i].heure = h}
        IN  /\ fig_heatmap.kind = "imshow"
            /\ fig_heatmap.index = {df[i].type_jour : i \in 1..Len(df)}
            /\ fig_heatmap.columns = {df[i].heure : i \in 1..Len(df)}
            /\ DOMAIN fig_heatmap.cells
                  = fig_heatmap.index \X fig_heatmap.columns
            /\ \A d \in fig_heatmap.index : \A h \in fig_heatmap.columns :
                  LET cell == fig_heatmap.cells[<<d, h>>]
                  IN  IF at(d, h) = {} THEN cell = NaN
                      ELSE /\ cell.t = "mean"
                           /\ cell.n = Cardinality(at(d, h))
                           /\ cell.sum = SumOver(df, at(d, h))

\* The heatmap was drawn from two rows on different day types and hours:
\* a 2 x 2 matrix, two cells with the value of their one row and two
\* missing cells.
C12_Witness ==
    /\ HeatmapDone
    /\ Len(HeatmapInput) = 2
    /\ fig_heatmap.kind = "imshow"
    /\ fig_heatmap.index = {Semaine, Samedi}
    /\ fig_heatmap.columns = {IntV(6), IntV(7)}
    /\ fig_heatmap.cells[<<Semaine, IntV(6)>>]
          = [t |-> "mean", sum |-> 200, n |-> 1]
    /\ fig_heatmap.cells[<<Samedi, IntV(7)>>]
          = [t |-> "mean", sum |-> 300, n |-> 1]
    /\ fig_heatmap.cells[<<Semaine, IntV(7)>>] = NaN
    /\ fig_heatmap.cells[<<Samedi, IntV(6)>>] = NaN

-----------------------------------------------------------------------------
(* C13 *)

\* The two filtered frames have been built.
FiltersDone ==
    pc \in {"plot_profil_horaire", "plot_boxplot", "plot_heatmap", "show_map",
            "done"}

\* How many times row r occurs in frame df.
CountOf(df, r) == Cardinality({i \in 1..Len(df) : df[i] = r})

\* C13: for every choice of the three filters, the filtered joined frame
\* holds exactly the joined rows whose validation part passes the filter,
\* each as many times as in the joined frame; validation rows equal on
\* station, day type, hour and percentage do not multiply them.
C13_FilteredJoinKeepsMultiplicity ==
    FiltersDone =>
        LET passes(m) ==
                FilterValidations(<<m>>, selected_type_jour, selected_gares,
                                  plage_horaire) # <<>>
        IN  /\ \A n \in 1..Len(df_merged_filtered) :
                  \E i \in 1..Len(df_merged) :
                      df_merged_filtered[n] = df_merged[i]
            /\ \A i \in 1..Len(df_merged) :
                  CountOf(df_merged_filtered, df_merged[i])
                      = IF passes(df_merged[i])
                        THEN CountOf(df_merged, df_merged[i]) ELSE 0

-----------------------------------------------------------------------------
(* C1 *)

\* The join has run.
MergeDone == Len(log) >= 3

\* C1: the merge is a left outer join on the station key: each validations
\* row appears max(1, k) times, k the number of station rows with its key;
\* with k = 0 its one row has every station column null, and with k >= 1 it
\* is combined with each of the k station rows (no deduplication).
C1_LeftOuterJoin ==
    MergeDone =>
        LET stationCols == GaresColumns(raw_gares.cols) \ {"gare"}
            valPart(m) == [x \in ValSubset |-> m[x]]
            stPart(m) == [x \in stationCols |-> m[x]]
            matches(v) ==
                {j \in 1..Len(df_gares) : df_gares[j]["gare"] = v.gare}
        IN  /\ \A n \in 1..Len(df_merged) :
                  \E i \in 1..Len(df_val) : valPart(df_merged[n]) = df_val[i]
            /\ \A i \in 1..Len(df_val) :
                  LET v == df_val[i]
                      k == Cardinality(matches(v))
                      copies ==
                          Cardinality({x \in 1..Len(df_val) : df_val[x] = v})
                      outs == {n \in 1..Len(df_merged) :
                                  valPart(df_merged[n]) = v}
                  IN  /\ Cardinality(outs)
                            = copies * (IF k = 0 THEN 1 ELSE k)
                      /\ k = 0 => \A n \in outs : \A c \in stationCols :
                                      isna(df_merged[n][c])
                      /\ \A j \in matches(v) :
                            Cardinality({n \in outs : stPart(df_merged[n])
                                            = stPart(df_gares[j])})
                            = copies * Cardinality({y \in matches(v) :
                                  stPart(df_gares[y]) = stPart(df_gares[j])})

\* The join has run on two validations rows, one whose key matches two
\* station rows and one whose key matches none: three joined rows.
C1_Witness ==
    /\ MergeDone
    /\ Len(df_val) = 2
    /\ Len(df_gares) = 2
    /\ df_gares[1]["gare"] = df_val[1].gare
    /\ df_gares[2]["gare"] = df_val[1].gare
    /\ df_gares[1] # df_gares[2]
    /\ df_val[2].gare # df_val[1].gare
    /\ Len(df_merged) = 3
    /\ isna(df_merged[3]["lat"])

-----------------------------------------------------------------------------
(* C8 *)

\* C8: the geospatial summary leaves out exactly the joined rows whose lat
\* or lon is null: every row with both belongs to an output group with its
\* (gare, lat, lon, mode, exploitant), whatever its mode or operator, and
\* the group's total is the sum of pct_validations over the rows of the
\* group.
C8_MapKeepsLocatedRows ==
    pc = "done" =>
        LET located == dropna(df_merged_filtered, {"lat", "lon"})
            keyOf(r) == [x \in MapKeys |-> r[x]]
        IN  \A i \in 1..Len(located) :
               /\ fig_map.kind = "scatter_mapbox"
               /\ \E g \in fig_map.groups :
                     /\ g.key = keyOf(located[i])
                     /\ g.total_pct_validations
                           = SumPct(SelectSeq(located, LAMBDA r :
                                 keyOf(r) = keyOf(located[i])))

-----------------------------------------------------------------------------
(* C9 *)

StageOrder ==
    <<"load_validations_data", "load_gares_data", "merge_validations_gares",
      "plot_profil_horaire", "plot_boxplot", "plot_heatmap", "show_map">>

\* C9: the stages run as a strict pipeline: with a source file missing no
\* loader, join or view runs and nothing is produced; otherwise the stages
\* completed so far are always the first ones of the order validations
\* loader, stations loader, join, then the four views, each after the one
\* before it has completed and none run again.
C9_StrictPipeline ==
    /\ Len(log) <= Len(StageOrder)
    /\ log = SubSeq(StageOrder, 1, Len(log))
    /\ (~val_exists \/ ~gares_exists) =>
          /\ log = <<>>
          /\ pc \in {"idle", "check_files", "returned"}
          /\ df_val = <<>> /\ df_gares = <<>> /\ df_merged = <<>>
          /\ fig_profil = NotRendered /\ fig_boxplot = NotRendered
          /\ fig_heatmap = NotRendered /\ fig_map = NotRendered
    /\ pc = "returned" => (~val_exists \/ ~gares_exists)
    /\ df_merged # <<>> => Len(log) >= 3
    /\ (fig_profil # NotRendered \/ fig_boxplot # NotRendered
            \/ fig_heatmap # NotRendered \/ fig_map # NotRendered)
          => Len(log) >= 4

\* A run with both files present has gone through every stage, in order.
C9_Witness ==
    /\ pc = "done"
    /\ log = StageOrder
    /\ df_merged # <<>>
    /\ fig_map.kind = "scatter_mapbox"

-----------------------------------------------------------------------------
(* C10 *)

\* C10: an empty collection is valid at every stage: the run never raises,
\* and a view given an empty frame renders its no-data result.
C10_EmptyIsValid ==
    /\ pc # "raised"
    /\ pc = "done" =>
          /\ df_filtered = <<>> => fig_profil = Info
          /\ df_merged_filtered = <<>> => fig_boxplot = Info /\ fig_map = Info
          /\ (selected_type_jour = Tous /\ df_filtered = <<>>)
                => fig_heatmap.kind = "returned"

====
